---------------------------- MODULE Spec2Model ----------------------------
(***************************************************************************)
(* A model of csgo-update-watcher (src/main.go): the watch loop of         *)
(* UpdateWatcher, the version probe (runScript, latestVersion,             *)
(* getImageBuildid), the tag ledger (newestBuildVersion), the build/tag     *)
(* pipeline (buildContainerAndPublish), the setup of Start                 *)
(* (createBuildContext, ensureBaseImage) and announceNewVersion.           *)
(*                                                                         *)
(* Go strings are modelled as TLA+ strings (TLC evaluates Len, SubSeq and  *)
(* \o on them), so slicing, prefix comparison and strconv are computed on  *)
(* the characters, as the code does.                                       *)
(***************************************************************************)
EXTENDS Integers, Sequences, FiniteSets, TLC

VARIABLES
    \* ---- the process: UpdateWatcher and the goroutine running Start ----
    pc,                 \* position of the goroutine that runs Start/watchAndBuild
    stopOnError,        \* argument of Start
    discordHook,        \* UpdateWatcher.discordHook
    buildContextFile,   \* UpdateWatcher.buildContextFile
    retErr,             \* the error Start returned ("none": nil or not returned)
    tickPending,        \* ticker.C holds a tick (a channel of capacity 1)
    ticks,              \* number of times the interval timer has fired
    latestVersion,      \* local of watchAndBuild
    newestBuildVersion, \* local of watchAndBuild
    tempTag,            \* local of buildContainerAndPublish
    buildid,            \* local of buildContainerAndPublish
    taggedImage,        \* local of buildContainerAndPublish
    containerImage,     \* local of watchAndBuild: the tag the pipeline returned
    announcements,      \* running announceNewVersion goroutines (their argument)
    uuids,              \* number of uuid.NewString() calls so far
    \* ---- the container runtime ----
    tags,               \* the tags of the image store
    containers,         \* number of containers that exist on the host
    \* ---- observation of the current tick ----
    tickErr,            \* the stage whose error the current tick handled
    compared,           \* both lookups of the tick succeeded and were compared
    buildInvoked,       \* buildContainerAndPublish was called in the tick
    announceDispatched, \* go announceNewVersion was executed in the tick
    probed,             \* what getImageBuildid returned in the pipeline run
    published,          \* identifiers for which the pipeline returned nil error
    lastCall,           \* the last call of the tick into the runtime, and its outcome
    steady,             \* every call so far succeeded and every probe printed SteadyOutput
    notifications,      \* the announceNewVersion goroutines that ended, and how
    \* ---- harness of the pure functions (SpecProbe, SpecLedger) ----
    probeLogs,          \* stdout handed to the parse of a version probe
    probeRes,           \* its results, per probe function
    ledgerTags,         \* a tag listing handed to newestBuildVersion
    ledgerRes,          \* the results of the scans so far
    \* ---- harness of ensureBaseImage (SpecEnsure) ----
    ensureTags,         \* the tags of the image store the calls run against
    ensureCalls         \* the calls of ensureBaseImage so far, and what they did

mainVars == <<pc, stopOnError, discordHook, buildContextFile, retErr,
              tickPending, ticks, latestVersion, newestBuildVersion, tempTag,
              buildid, taggedImage, containerImage, announcements, uuids,
              tags, containers, tickErr, compared, buildInvoked,
              announceDispatched, probed, published, lastCall, steady,
              notifications>>

harnessVars == <<probeLogs, probeRes, ledgerTags, ledgerRes, ensureTags,
                 ensureCalls>>

vars == <<mainVars, harnessVars>>

-----------------------------------------------------------------------------
(* Bounds of the model *)

\* the interval timer fires at most MaxTicks times
MaxTicks == 2
\* SpecProbe: probe outputs of up to MaxOutLen characters
MaxOutLen == 3
\* SpecLedger: tag suffixes of up to MaxSuffixLen characters
MaxSuffixLen == 2
\* SpecLedger: listings of up to MaxTags tags
MaxTags == 2
\* SpecEnsure: up to MaxEnsureCalls calls of ensureBaseImage in a row
MaxEnsureCalls == 2

-----------------------------------------------------------------------------
(* Strings and strconv *)

Char(s, i) == SubSeq(s, i, i)

Digits == {"0", "1", "2", "3", "4", "5", "6", "7", "8", "9"}

DigitVal(c) ==
    CASE c = "0" -> 0 [] c = "1" -> 1 [] c = "2" -> 2 [] c = "3" -> 3
      [] c = "4" -> 4 [] c = "5" -> 5 [] c = "6" -> 6 [] c = "7" -> 7
      [] c = "8" -> 8 [] c = "9" -> 9

DigitChar(d) ==
    CASE d = 0 -> "0" [] d = 1 -> "1" [] d = 2 -> "2" [] d = 3 -> "3"
      [] d = 4 -> "4" [] d = 5 -> "5" [] d = 6 -> "6" [] d = 7 -> "7"
      [] d = 8 -> "8" [] d = 9 -> "9"

\* the value of a non-empty string of decimal digits, left to right
RECURSIVE DigitsVal(_)
DigitsVal(s) ==
    IF Len(s) = 0 THEN 0
    ELSE 10 * DigitsVal(SubSeq(s, 1, Len(s) - 1)) + DigitVal(Char(s, Len(s)))

\* strconv.Itoa
RECURSIVE Itoa(_)
Itoa(n) ==
    IF n < 0 THEN "-" \o Itoa(-n)
    ELSE IF n < 10 THEN DigitChar(n)
    ELSE Itoa(n \div 10) \o DigitChar(n % 10)

\* strconv.Atoi: an optional sign, then one or more decimal digits; a syntax
\* error returns 0 with the error.  (A range error needs 10 or more digits,
\* which no string of this model has.)
Atoi(s) ==
    LET signed == Len(s) > 0 /\ Char(s, 1) \in {"+", "-"}
        body   == IF signed THEN SubSeq(s, 2, Len(s)) ELSE s
    IN  IF Len(body) = 0 \/ \E i \in 1..Len(body) : Char(body, i) \notin Digits
        THEN [err |-> TRUE, val |-> 0]
        ELSE [err |-> FALSE,
              val |-> IF Char(s, 1) = "-" THEN 0 - DigitsVal(body)
                      ELSE DigitsVal(body)]

-----------------------------------------------------------------------------
(* The version probe: the parse of latestVersion and getImageBuildid *)

\* a probe result: kind is "ok" (val, nil), "err" (0, error) or "panic"
\* (a run-time panic of the calling goroutine); "none" is no call yet
Result(kind, val) == [kind |-> kind, val |-> val]

\* what runScript returns: (logs, nil) or ("", err)
RunScriptOk(logs) == [err |-> FALSE, logs |-> logs]
RunScriptErr == [err |-> TRUE, logs |-> ""]

StripTrailing_NoStrip(logs) == logs

\* logs[:len(logs)-1]; the caller handles len(logs) = 0, where the slice
\* expression panics (slice bounds out of range [:-1])
StripTrailing(logs) == SubSeq(logs, 1, Len(logs) - 1)

\* latestVersion, given what runScript returned
LatestVersion(rs) ==
    IF rs.err THEN Result("err", 0)
    ELSE IF Len(rs.logs) = 0 THEN Result("panic", 0)
    ELSE LET a == Atoi(StripTrailing(rs.logs))
         IN  IF a.err THEN Result("err", 0) ELSE Result("ok", a.val)

\* getImageBuildid, given what runScript returned
GetImageBuildid(rs) ==
    IF rs.err THEN Result("err", 0)
    ELSE IF Len(rs.logs) = 0 THEN Result("panic", 0)
    ELSE LET a == Atoi(StripTrailing(rs.logs))
         IN  IF a.err THEN Result("err", 0) ELSE Result("ok", a.val)

-----------------------------------------------------------------------------
(* The tag ledger: newestBuildVersion *)

\* UpdateWatcher.BaseImageName ("csgo-watched" in main; any namespace)
BaseImageName == "ns"

ExpectedPrefix == BaseImageName \o ":buildid-"

\* the value largestBuildid starts from, returned when no tag raised it
NoBuild == -1

Larger_Smaller(largestBuildid, id) ==
    IF largestBuildid > id THEN id ELSE largestBuildid

\* if largestBuildid < buildid { largestBuildid = buildid }
Larger(largestBuildid, id) ==
    IF largestBuildid < id THEN id ELSE largestBuildid

\* the body of the loop over the tags: two prefix checks, the conversion
\* (whose error is logged and nothing else) and the running maximum
ScanTag(largestBuildid, tag) ==
    IF Len(tag) <= Len(ExpectedPrefix) THEN largestBuildid
    ELSE IF SubSeq(tag, 1, Len(ExpectedPrefix)) # ExpectedPrefix
         THEN largestBuildid
    ELSE LET buildidStr == SubSeq(tag, Len(ExpectedPrefix) + 1, Len(tag))
         IN  Larger(largestBuildid, Atoi(buildidStr).val)

\* the loop; a running maximum does not depend on the order of the listing
RECURSIVE ScanTags(_, _)
ScanTags(listing, largestBuildid) ==
    IF listing = {} THEN largestBuildid
    ELSE LET tag == CHOOSE t \in listing : TRUE
         IN  ScanTags(listing \ {tag}, ScanTag(largestBuildid, tag))

\* newestBuildVersion on a listing ImageList returned without error
NewestBuildVersion(listing) == ScanTags(listing, NoBuild)

-----------------------------------------------------------------------------
(* Inputs of the harnesses *)

RECURSIVE StringsOfLen(_, _)
StringsOfLen(alphabet, n) ==
    IF n = 0 THEN {""}
    ELSE {s \o c : s \in StringsOfLen(alphabet, n - 1), c \in alphabet}

StringsUpTo(alphabet, n) == UNION {StringsOfLen(alphabet, k) : k \in 0..n}

\* stdout of a probe script: digits, signs, a letter, line terminators
OutputAlphabet == {"0", "1", "9", "-", "+", "a", "\n"}

ProbeInputs == StringsUpTo(OutputAlphabet, MaxOutLen)

SuffixAlphabet == {"0", "5", "a"}

\* tags of other roles and namespaces, none beginning with ExpectedPrefix,
\* and tags beginning with it whose suffix is signed
OtherTags == {"ns:base", "ns:preinstall-buildid-5", "ns:get5-buildid-5",
              "xns:buildid-5", "ns:BUILDID-5", "ns:buildid",
              "ns:buildid--5", "ns:buildid--0"}

TagPool ==
    {ExpectedPrefix \o s : s \in StringsUpTo(SuffixAlphabet, MaxSuffixLen)}
        \cup OtherTags

\* prefix-matching tags with a suffix strconv.Atoi rejects
MalformedTags == {"ns:buildid-123abc", "ns:buildid-abc"}

\* the listings of at most n tags of TagPool
RECURSIVE ListingsUpTo(_)
ListingsUpTo(n) ==
    IF n = 0 THEN {{}}
    ELSE LET smaller == ListingsUpTo(n - 1)
         IN  smaller \cup {T \cup {t} : T \in smaller, t \in TagPool}

Listings == ListingsUpTo(MaxTags)

NoResult == Result("none", 0)

\* no call into the runtime was made yet in the tick
NoCall == [step |-> "none", failAt |-> "none", output |-> "", context |-> ""]

ensureVars == <<ensureTags, ensureCalls>>

HarnessIdle ==
    /\ probeLogs = ""
    /\ probeRes = [latestVersion |-> NoResult, getImageBuildid |-> NoResult]
    /\ ledgerTags = {}
    /\ ledgerRes = <<>>
    /\ ensureTags = {}
    /\ ensureCalls = <<>>

-----------------------------------------------------------------------------
(* Harness of the version probe: every output of up to MaxOutLen           *)
(* characters is handed to both probe functions.                           *)

MainIdle ==
    /\ pc = "harness"
    /\ stopOnError = FALSE
    /\ discordHook = ""
    /\ buildContextFile = ""
    /\ retErr = "none"
    /\ tickPending = FALSE
    /\ ticks = 0
    /\ latestVersion = 0
    /\ newestBuildVersion = 0
    /\ tempTag = ""
    /\ buildid = 0
    /\ taggedImage = ""
    /\ containerImage = ""
    /\ announcements = <<>>
    /\ uuids = 0
    /\ tags = {}
    /\ containers = 0
    /\ tickErr = "none"
    /\ compared = FALSE
    /\ buildInvoked = FALSE
    /\ announceDispatched = FALSE
    /\ probed = NoResult
    /\ published = {}
    /\ lastCall = NoCall
    /\ steady = TRUE
    /\ notifications = {}

InitProbe ==
    /\ MainIdle
    /\ probeLogs \in ProbeInputs
    /\ probeRes = [latestVersion |-> NoResult, getImageBuildid |-> NoResult]
    /\ ledgerTags = {}
    /\ ledgerRes = <<>>
    /\ ensureTags = {}
    /\ ensureCalls = <<>>

ProbeLatestVersion ==
    /\ probeRes.latestVersion.kind = "none"
    /\ probeRes' = [probeRes EXCEPT
                      !.latestVersion = LatestVersion(RunScriptOk(probeLogs))]
    /\ UNCHANGED <<probeLogs, ledgerTags, ledgerRes, ensureVars, mainVars>>

ProbeGetImageBuildid ==
    /\ probeRes.getImageBuildid.kind = "none"
    /\ probeRes' = [probeRes EXCEPT
                      !.getImageBuildid = GetImageBuildid(RunScriptOk(probeLogs))]
    /\ UNCHANGED <<probeLogs, ledgerTags, ledgerRes, ensureVars, mainVars>>

NextProbe == ProbeLatestVersion \/ ProbeGetImageBuildid

SpecProbe == InitProbe /\ [][NextProbe]_vars

-----------------------------------------------------------------------------
(* Harness of the tag ledger: every listing of up to MaxTags tags of       *)
(* TagPool is scanned; malformed tags are then added and the listing is    *)
(* scanned again.                                                          *)

InitLedger ==
    /\ MainIdle
    /\ probeLogs = ""
    /\ probeRes = [latestVersion |-> NoResult, getImageBuildid |-> NoResult]
    /\ ledgerTags \in Listings
    /\ ledgerRes = <<>>
    /\ ensureTags = {}
    /\ ensureCalls = <<>>

\* a call of newestBuildVersion whose ImageList succeeds
LedgerScan ==
    /\ \/ Len(ledgerRes) = 0
       \/ Len(ledgerRes) = 1 /\ ledgerTags # ledgerRes[1].listing
    /\ ledgerRes' = Append(ledgerRes,
                           [listing |-> ledgerTags,
                            res |-> NewestBuildVersion(ledgerTags)])
    /\ UNCHANGED <<probeLogs, probeRes, ledgerTags, ensureVars, mainVars>>

\* tags with a malformed suffix appear on the host between two scans
LedgerAddMalformed ==
    /\ Len(ledgerRes) = 1
    /\ ledgerTags = ledgerRes[1].listing
    /\ \E M \in (SUBSET MalformedTags) \ {{}} : ledgerTags' = ledgerTags \cup M
    /\ UNCHANGED <<probeLogs, probeRes, ledgerRes, ensureVars, mainVars>>

NextLedger == LedgerScan \/ LedgerAddMalformed

SpecLedger == InitLedger /\ [][NextLedger]_vars

-----------------------------------------------------------------------------
(* The process: Start, the watch loop and the pipeline *)

BaseTag == BaseImageName \o ":base"

\* the image store Start may find: empty, the base image, the base image
\* and build tags that were put on the host by hand
InitialTagSets == {{}, {"ns:base"}, {"ns:base", "ns:buildid-400"},
                   {"ns:base", "ns:buildid-500"}}

\* stdout of the helper scripts in the runs of the process
ProbeOutputs == {"500\n", "400\n", "abc\n", ""}

\* where runScript can fail: ContainerCreate, ContainerStart, ContainerWait,
\* ContainerLogs, StdCopy, ContainerRemove
RunScriptFailPoints == {"create", "start", "wait", "logs", "demux", "remove"}

\* runScript: what it returns, and whether the container it created is
\* still there when it returns (ContainerRemove is the last call, reached
\* only when every call before it succeeded)
RunScript(failAt, output) ==
    IF failAt = "none" THEN [rs |-> RunScriptOk(output), left |-> 0]
    ELSE IF failAt = "create" THEN [rs |-> RunScriptErr, left |-> 0]
    ELSE [rs |-> RunScriptErr, left |-> 1]

\* where buildContainer can fail: os.Open, ImageBuild, io.Copy of the log
BuildFailPoints == {"open", "build", "log"}

NeedsBuild_OnAnyDifference(newest, latest) == newest # latest

\* if newestBuildVersion < latestVersion
NeedsBuild(newest, latest) == newest < latest

\* tempTag := BaseImageName + ":temp-" + uuid.NewString(); the n-th token
TempTag(n) == BaseImageName \o ":temp-u" \o Itoa(n)

\* taggedImage := BaseImageName + ":preinstall-buildid-" + Itoa(buildid)
TaggedImage(id) == BaseImageName \o ":preinstall-buildid-" \o Itoa(id)

Get5TaggedImage_Preinstall(id) == TaggedImage(id)

\* get5TaggedImage := BaseImageName + ":get5-buildid-" + Itoa(buildid)
Get5TaggedImage(id) == BaseImageName \o ":get5-buildid-" \o Itoa(id)

\* return taggedImage, buildid, nil
ReturnedImage(tagged, get5Tagged) == tagged

PackagedContext_Unset == ""

\* this.buildContextFile = file.Name(): the temporary file of the process
PackagedContext == "/tmp/csgo-update-watcher-1"

\* the probe output of a run in which upstream and installed build agree
SteadyOutput == "500\n"

ProbeSteps == {"latestVersion", "getImageBuildid"}

BuildSteps == {"ensureBaseImage", "buildTemp", "buildGet5"}

\* a call into the runtime returned: where it failed ("none": it did not),
\* the stdout of the script it ran, the build context file it opened
Observe(step, failAt, output, context) ==
    /\ lastCall' = [step |-> step, failAt |-> failAt, output |-> output,
                    context |-> context]
    /\ steady' = (/\ steady
                  /\ failAt = "none"
                  /\ (step \in ProbeSteps => output = SteadyOutput))

traceVars == <<lastCall, steady, notifications>>

\* ImageInspectWithRaw on the base tag: found, not found, or another error
InspectResult(tagSet, inspect) ==
    IF inspect = "err" THEN "err"
    ELSE IF BaseTag \in tagSet THEN "found" ELSE "notFound"

InspectTriggersBuild_AnyError(res) == res # "found"

\* if client.IsErrNotFound(err) { // Build image }
InspectTriggersBuild(res) == res = "notFound"

BuiltTag_Latest == BaseImageName \o ":latest"

\* Tags: []string{tag} of the ImageBuild call of ensureBaseImage
BuiltTag == BaseTag

\* ensureBaseImage against the image store tagSet: what the inspection
\* said, whether ImageBuild was invoked, whether an error was returned,
\* the image store afterwards and the build context file that was opened
EnsureBaseImageCall(tagSet, inspect, build, built) ==
    LET res == InspectResult(tagSet, inspect)
    IN  IF res = "found"
        THEN [inspect |-> res, invoked |-> FALSE, err |-> FALSE,
              failAt |-> "none", before |-> tagSet, tags |-> tagSet,
              context |-> ""]
        ELSE IF ~InspectTriggersBuild(res)
        THEN [inspect |-> res, invoked |-> FALSE, err |-> TRUE,
              failAt |-> "inspect", before |-> tagSet, tags |-> tagSet,
              context |-> ""]
        ELSE [inspect |-> res, invoked |-> build # "open", err |-> build # "ok",
              failAt |-> IF build = "ok" THEN "none" ELSE build,
              before |-> tagSet,
              tags |-> IF build = "ok" \/ (build = "log" /\ built)
                       THEN tagSet \cup {BuiltTag} ELSE tagSet,
              context |-> buildContextFile]

Init ==
    /\ pc = "start"
    /\ stopOnError \in BOOLEAN
    /\ discordHook \in {"", "https://hook"}
    /\ buildContextFile = ""
    /\ retErr = "none"
    /\ tickPending = FALSE
    /\ ticks = 0
    /\ latestVersion = 0
    /\ newestBuildVersion = 0
    /\ tempTag = ""
    /\ buildid = 0
    /\ taggedImage = ""
    /\ containerImage = ""
    /\ announcements = <<>>
    /\ uuids = 0
    /\ tags \in InitialTagSets
    /\ containers = 0
    /\ tickErr = "none"
    /\ compared = FALSE
    /\ buildInvoked = FALSE
    /\ announceDispatched = FALSE
    /\ probed = NoResult
    /\ published = {}
    /\ lastCall = NoCall
    /\ steady = TRUE
    /\ notifications = {}
    /\ HarnessIdle

loopLocals == <<latestVersion, newestBuildVersion, tempTag, buildid,
                taggedImage, containerImage>>

observed == <<compared, buildInvoked, announceDispatched, probed, published>>

ReturnSetupError_UnlessContinuing(stage) ==
    IF stopOnError
    THEN pc' = "returned" /\ retErr' = stage
    ELSE pc' = "wait" /\ UNCHANGED retErr

\* Start: if err != nil { return fmt.Errorf(...) }, whatever stopOnError is
ReturnSetupError(stage) == pc' = "returned" /\ retErr' = stage

\* Start: createBuildContext; its error is returned, and a failure to close
\* the tar writer or a short copy panics
CreateBuildContext ==
    /\ pc = "start"
    /\ \E outcome \in {"ok", "err", "panic"} :
         \/ /\ outcome = "ok"
            /\ buildContextFile' = PackagedContext
            /\ pc' = "ensureBaseImage"
            /\ UNCHANGED retErr
         \/ /\ outcome = "err"
            /\ ReturnSetupError("createBuildContext")
            /\ UNCHANGED buildContextFile
         \/ /\ outcome = "panic"
            /\ pc' = "panic:createBuildContext"
            /\ UNCHANGED <<buildContextFile, retErr>>
    /\ UNCHANGED <<stopOnError, discordHook, tickPending, ticks, loopLocals,
                   announcements, uuids, tags, containers, tickErr, observed,
                   traceVars, harnessVars>>

\* Start: ensureBaseImage, then the ticker of watchAndBuild is created
EnsureBaseImage ==
    /\ pc = "ensureBaseImage"
    /\ \E inspect \in {"answer", "err"}, build \in {"ok", "open", "build", "log"},
          built \in BOOLEAN :
         LET call == EnsureBaseImageCall(tags, inspect, build, built)
         IN  /\ tags' = call.tags
             /\ Observe("ensureBaseImage", call.failAt, "", call.context)
             /\ IF call.err
                THEN ReturnSetupError("ensureBaseImage")
                ELSE pc' = "wait" /\ UNCHANGED retErr
    /\ UNCHANGED <<stopOnError, discordHook, buildContextFile, tickPending,
                   ticks, loopLocals, announcements, uuids, containers,
                   tickErr, observed, notifications, harnessVars>>

\* an unrecovered panic ends the process, with all its goroutines
Panicked == {"panic:createBuildContext", "panic:latestVersion",
             "panic:getImageBuildid"}

LoopPcs == {"wait", "latestVersion", "newestBuildVersion", "compare",
            "buildTemp", "getImageBuildid", "imageTag", "buildGet5", "built"}

\* the interval timer fires: ticker.C holds at most one tick, a tick that
\* finds it full is dropped
TimerFire ==
    /\ pc \in LoopPcs
    /\ ticks < MaxTicks
    /\ ticks' = ticks + 1
    /\ tickPending' = TRUE
    /\ UNCHANGED <<pc, stopOnError, discordHook, buildContextFile, retErr,
                   loopLocals, announcements, uuids, tags, containers,
                   tickErr, observed, traceVars, harnessVars>>

TickReady_WhileBusy == pc \in LoopPcs

\* the loop receives from ticker.C only between two iterations
TickReady == pc = "wait"

\* for range ticker.C: the loop takes the tick and starts an iteration
Tick ==
    /\ TickReady
    /\ tickPending
    /\ tickPending' = FALSE
    /\ pc' = "latestVersion"
    /\ latestVersion' = 0
    /\ newestBuildVersion' = 0
    /\ tempTag' = ""
    /\ buildid' = 0
    /\ taggedImage' = ""
    /\ containerImage' = ""
    /\ tickErr' = "none"
    /\ compared' = FALSE
    /\ buildInvoked' = FALSE
    /\ announceDispatched' = FALSE
    /\ probed' = NoResult
    /\ lastCall' = NoCall
    /\ UNCHANGED <<stopOnError, discordHook, buildContextFile, retErr, ticks,
                   announcements, uuids, tags, containers, published, steady,
                   notifications, harnessVars>>

\* the three error branches of the loop: log, then return err or continue
OnError(stage) ==
    /\ tickErr' = stage
    /\ IF stopOnError
       THEN pc' = "returned" /\ retErr' = stage
       ELSE pc' = "wait" /\ UNCHANGED retErr

\* latestVersion, err := this.latestVersion()
CallLatestVersion ==
    /\ pc = "latestVersion"
    /\ \E failAt \in RunScriptFailPoints \cup {"none"}, output \in ProbeOutputs :
         LET run == RunScript(failAt, output)
             res == LatestVersion(run.rs)
         IN  /\ containers' = containers + run.left
             /\ Observe("latestVersion", failAt, output, "")
             /\ \/ /\ res.kind = "ok"
                   /\ latestVersion' = res.val
                   /\ pc' = "newestBuildVersion"
                   /\ UNCHANGED <<retErr, tickErr>>
                \/ /\ res.kind = "err"
                   /\ OnError("latestVersion")
                   /\ UNCHANGED latestVersion
                \/ /\ res.kind = "panic"
                   /\ pc' = "panic:latestVersion"
                   /\ UNCHANGED <<latestVersion, retErr, tickErr>>
    /\ UNCHANGED <<stopOnError, discordHook, buildContextFile, tickPending,
                   ticks, newestBuildVersion, tempTag, buildid, taggedImage,
                   containerImage, announcements, uuids, tags, observed,
                   notifications, harnessVars>>

\* newestBuildVersion, err := this.newestBuildVersion()
CallNewestBuildVersion ==
    /\ pc = "newestBuildVersion"
    /\ \E listed \in BOOLEAN :
         /\ Observe("newestBuildVersion", IF listed THEN "none" ELSE "list",
                    "", "")
         /\ \/ /\ listed
               /\ newestBuildVersion' = NewestBuildVersion(tags)
               /\ pc' = "compare"
               /\ UNCHANGED <<retErr, tickErr>>
            \/ /\ ~listed
               /\ OnError("newestBuildVersion")
               /\ UNCHANGED newestBuildVersion
    /\ UNCHANGED <<stopOnError, discordHook, buildContextFile, tickPending,
                   ticks, latestVersion, tempTag, buildid, taggedImage,
                   containerImage, announcements, uuids, tags, containers,
                   observed, notifications, harnessVars>>

\* the comparison of the two versions: go announceNewVersion and the call
\* of buildContainerAndPublish, or the warning, or nothing
Compare ==
    /\ pc = "compare"
    /\ compared' = TRUE
    /\ \/ /\ NeedsBuild(newestBuildVersion, latestVersion)
          /\ announcements' = Append(announcements, latestVersion)
          /\ announceDispatched' = TRUE
          /\ buildInvoked' = TRUE
          /\ pc' = "buildTemp"
       \/ /\ ~NeedsBuild(newestBuildVersion, latestVersion)
          /\ pc' = "wait"
          /\ UNCHANGED <<announcements, announceDispatched, buildInvoked>>
    /\ UNCHANGED <<stopOnError, discordHook, buildContextFile, retErr,
                   tickPending, ticks, loopLocals, uuids, tags, containers,
                   tickErr, probed, published, traceVars, harnessVars>>

\* buildContainerAndPublish: the temp tag and the build of the preinstall
\* image; when reading the build log fails the build may have finished
BuildTemp ==
    /\ pc = "buildTemp"
    /\ uuids' = uuids + 1
    /\ tempTag' = TempTag(uuids + 1)
    /\ \E failAt \in BuildFailPoints \cup {"none"}, built \in BOOLEAN :
         /\ Observe("buildTemp", failAt, "", buildContextFile)
         /\ \/ /\ failAt = "none" /\ built
               /\ tags' = tags \cup {tempTag'}
               /\ pc' = "getImageBuildid"
               /\ UNCHANGED <<retErr, tickErr>>
            \/ /\ failAt # "none"
               /\ tags' = IF failAt = "log" /\ built THEN tags \cup {tempTag'}
                          ELSE tags
               /\ OnError("buildContainerAndPublish")
    /\ UNCHANGED <<stopOnError, discordHook, buildContextFile, tickPending,
                   ticks, latestVersion, newestBuildVersion, buildid,
                   taggedImage, containerImage, announcements, containers,
                   observed, notifications, harnessVars>>

\* buildid, err := this.getImageBuildid(tempTag)
CallGetImageBuildid ==
    /\ pc = "getImageBuildid"
    /\ \E failAt \in RunScriptFailPoints \cup {"none"}, output \in ProbeOutputs :
         LET run == RunScript(failAt, output)
             res == GetImageBuildid(run.rs)
         IN  /\ containers' = containers + run.left
             /\ probed' = res
             /\ Observe("getImageBuildid", failAt, output, "")
             /\ \/ /\ res.kind = "ok"
                   /\ buildid' = res.val
                   /\ pc' = "imageTag"
                   /\ UNCHANGED <<retErr, tickErr>>
                \/ /\ res.kind = "err"
                   /\ OnError("buildContainerAndPublish")
                   /\ UNCHANGED buildid
                \/ /\ res.kind = "panic"
                   /\ pc' = "panic:getImageBuildid"
                   /\ UNCHANGED <<buildid, retErr, tickErr>>
    /\ UNCHANGED <<stopOnError, discordHook, buildContextFile, tickPending,
                   ticks, latestVersion, newestBuildVersion, tempTag,
                   taggedImage, containerImage, announcements, uuids, tags,
                   compared, buildInvoked, announceDispatched, published,
                   notifications, harnessVars>>

\* this.dockerCli.ImageTag(this.ctx, tempTag, taggedImage)
ImageTag ==
    /\ pc = "imageTag"
    /\ taggedImage' = TaggedImage(buildid)
    /\ \E tagged \in BOOLEAN :
         /\ Observe("imageTag", IF tagged THEN "none" ELSE "tag", "", "")
         /\ \/ /\ tagged
               /\ tags' = tags \cup {taggedImage'}
               /\ pc' = "buildGet5"
               /\ UNCHANGED <<retErr, tickErr>>
            \/ /\ ~tagged
               /\ OnError("buildContainerAndPublish")
               /\ UNCHANGED tags
    /\ UNCHANGED <<stopOnError, discordHook, buildContextFile, tickPending,
                   ticks, latestVersion, newestBuildVersion, tempTag, buildid,
                   containerImage, announcements, uuids, containers, observed,
                   notifications, harnessVars>>

\* the build of the get5 image and the return of the pipeline
BuildGet5 ==
    /\ pc = "buildGet5"
    /\ \E failAt \in BuildFailPoints \cup {"none"}, built \in BOOLEAN :
         /\ Observe("buildGet5", failAt, "", buildContextFile)
         /\ \/ /\ failAt = "none" /\ built
               /\ tags' = tags \cup {Get5TaggedImage(buildid)}
               /\ containerImage' = ReturnedImage(taggedImage, Get5TaggedImage(buildid))
               /\ published' = published \cup {buildid}
               /\ pc' = "built"
               /\ UNCHANGED <<retErr, tickErr>>
            \/ /\ failAt # "none"
               /\ tags' = IF failAt = "log" /\ built
                          THEN tags \cup {Get5TaggedImage(buildid)} ELSE tags
               /\ OnError("buildContainerAndPublish")
               /\ UNCHANGED <<containerImage, published>>
    /\ UNCHANGED <<stopOnError, discordHook, buildContextFile, tickPending,
                   ticks, latestVersion, newestBuildVersion, tempTag, buildid,
                   taggedImage, announcements, uuids, containers, compared,
                   buildInvoked, announceDispatched, probed, notifications,
                   harnessVars>>

\* log.Info()...Msg("Build new CS:GO container image"), end of the iteration
LogBuilt ==
    /\ pc = "built"
    /\ pc' = "wait"
    /\ UNCHANGED <<stopOnError, discordHook, buildContextFile, retErr,
                   tickPending, ticks, loopLocals, announcements, uuids, tags,
                   containers, tickErr, observed, traceVars, harnessVars>>

SendFailure_Escalates(outcome) ==
    IF outcome = "sendFailed" /\ stopOnError
    THEN pc' = "returned" /\ retErr' = "announceNewVersion"
    ELSE UNCHANGED <<pc, retErr>>

\* if err != nil { log.Err(err).Msg(...) }: announceNewVersion returns
\* nothing, and nothing waits for it
SendFailure(outcome) == UNCHANGED <<pc, retErr>>

\* how a call of announceNewVersion can end
AnnounceOutcomes ==
    IF discordHook = "" THEN {"noHook"} ELSE {"sent", "sendFailed"}

\* a goroutine running announceNewVersion ends: at once when no hook is
\* configured, else after SendMessage returned (its error is logged)
AnnounceNewVersion ==
    /\ pc \notin Panicked
    /\ \E i \in DOMAIN announcements, outcome \in AnnounceOutcomes :
         /\ announcements' = SubSeq(announcements, 1, i - 1)
                               \o SubSeq(announcements, i + 1, Len(announcements))
         /\ notifications' = notifications \cup
                               {[version |-> announcements[i], outcome |-> outcome]}
         /\ SendFailure(outcome)
    /\ UNCHANGED <<stopOnError, discordHook, buildContextFile,
                   tickPending, ticks, loopLocals, uuids, tags, containers,
                   tickErr, observed, lastCall, steady, harnessVars>>

Next ==
    \/ CreateBuildContext
    \/ EnsureBaseImage
    \/ TimerFire
    \/ Tick
    \/ CallLatestVersion
    \/ CallNewestBuildVersion
    \/ Compare
    \/ BuildTemp
    \/ CallGetImageBuildid
    \/ ImageTag
    \/ BuildGet5
    \/ LogBuilt
    \/ AnnounceNewVersion

Spec == Init /\ [][Next]_vars

-----------------------------------------------------------------------------
(* Harness of ensureBaseImage: up to MaxEnsureCalls calls in a row against *)
(* one image store, with every outcome of the inspection and of the build. *)

\* the image stores the calls start from
EnsureStores == InitialTagSets \cup {{"ns:buildid-400"}, {"ns:temp-u1"}}

InitEnsure ==
    /\ MainIdle
    /\ probeLogs = ""
    /\ probeRes = [latestVersion |-> NoResult, getImageBuildid |-> NoResult]
    /\ ledgerTags = {}
    /\ ledgerRes = <<>>
    /\ ensureTags \in EnsureStores
    /\ ensureCalls = <<>>

\* one call of ensureBaseImage
EnsureCall ==
    /\ Len(ensureCalls) < MaxEnsureCalls
    /\ \E inspect \in {"answer", "err"}, build \in {"ok", "open", "build", "log"},
          built \in BOOLEAN :
         LET call == EnsureBaseImageCall(ensureTags, inspect, build, built)
         IN  /\ ensureTags' = call.tags
             /\ ensureCalls' = Append(ensureCalls, call)
    /\ UNCHANGED <<probeLogs, probeRes, ledgerTags, ledgerRes, mainVars>>

NextEnsure == EnsureCall

SpecEnsure == InitEnsure /\ [][NextEnsure]_vars

-----------------------------------------------------------------------------
(* C1 *)

PipelinePcs == {"buildTemp", "getImageBuildid", "imageTag", "buildGet5", "built"}

\* C1: on a tick in which latestVersion and newestBuildVersion both
\* succeeded, buildContainerAndPublish is invoked and announceNewVersion is
\* dispatched if and only if upstream > local; with upstream = local or
\* upstream < local neither happens, and the pipeline only ever runs in
\* such a tick.
C1_BuildIffUpstreamNewer ==
    /\ compared =>
          /\ buildInvoked <=> latestVersion > newestBuildVersion
          /\ announceDispatched <=> latestVersion > newestBuildVersion
    /\ pc \in PipelinePcs =>
          compared /\ buildInvoked /\ latestVersion > newestBuildVersion

\* scenario C: upstream 400, ledger 500, the tick ended without a build
C1_Witness ==
    /\ compared
    /\ pc = "wait"
    /\ latestVersion = 400
    /\ newestBuildVersion = 500
    /\ ~buildInvoked
    /\ ~announceDispatched

-----------------------------------------------------------------------------
(* C2 *)

\* C2: the ledger reads the tags the pipeline writes: in every state after
\* buildContainerAndPublish succeeded with identifier id, newestBuildVersion
\* (on a listing that succeeds) returns a value >= id.
C2_LedgerSeesPublishedBuilds ==
    \A id \in published : NewestBuildVersion(tags) >= id

-----------------------------------------------------------------------------
(* C3 *)

\* C3: when buildContainerAndPublish has returned without error with
\* identifier id, the tags <namespace>:preinstall-buildid-<id> and
\* <namespace>:get5-buildid-<id> exist, and id is the value the
\* installed-version probe returned in that run, whatever the upstream
\* value of the tick; upstream 500, ledger absent, installed 500 yields
\* ns:preinstall-buildid-500 and ns:get5-buildid-500.
C3_PipelineTagsProbedBuildid ==
    /\ pc = "built" =>
          /\ probed.kind = "ok"
          /\ buildid = probed.val
          /\ buildid \in published
    /\ \A id \in published :
          /\ ("ns:preinstall-buildid-" \o ToString(id)) \in tags
          /\ ("ns:get5-buildid-" \o ToString(id)) \in tags
    /\ (pc = "built" /\ latestVersion = 500 /\ newestBuildVersion = -1
            /\ probed = Result("ok", 500)) =>
          {"ns:preinstall-buildid-500", "ns:get5-buildid-500"} \subseteq tags

\* the pipeline returned 400, read from the image, in a tick whose upstream
\* value was 500
C3_Witness ==
    /\ pc = "built"
    /\ latestVersion = 500
    /\ buildid = 400
    /\ {"ns:preinstall-buildid-400", "ns:get5-buildid-400"} \subseteq tags

-----------------------------------------------------------------------------
(* C4 *)

\* C4: on success buildContainerAndPublish returns the final derived tag,
\* <namespace>:get5-buildid-<id>, together with the identifier id.
C4_ReturnsFinalDerivedTag ==
    pc = "built" =>
        /\ containerImage = "ns:get5-buildid-" \o ToString(buildid)
        /\ buildid = probed.val

\* what the code returns: the tag of the first stage
ReturnsPreinstallTag ==
    pc = "built" =>
        containerImage = "ns:preinstall-buildid-" \o ToString(buildid)

-----------------------------------------------------------------------------
(* C5 and C6 *)

TickStages == {"latestVersion", "newestBuildVersion", "buildContainerAndPublish"}

\* a call of the current tick failed: the loop handled its error, or a probe
\* crashed on the output of its script
TickFailed == tickErr # "none" \/ pc \in {"panic:latestVersion", "panic:getImageBuildid"}

\* C5: with stop-on-error set, the first failure of the upstream probe, of
\* the ledger lookup or of the pipeline terminates watchAndBuild, which
\* returns that error.
C5_StopOnErrorReturnsFirstFailure ==
    (stopOnError /\ TickFailed) =>
        (pc = "returned" /\ retErr = tickErr /\ retErr \in TickStages)

\* the part of C5 the code keeps: an error a call returned is returned by
\* the loop
StopOnErrorReturnsReportedError ==
    (stopOnError /\ tickErr # "none") =>
        (pc = "returned" /\ retErr = tickErr /\ retErr \in TickStages)

\* and nothing is done after watchAndBuild returned
NothingAfterReturn ==
    [][pc = "returned" =>
          UNCHANGED <<pc, retErr, tags, containers, tickPending, ticks, uuids,
                      tickErr, loopLocals, observed>>]_vars

\* C6: with stop-on-error not set, no probe, ledger or build failure ever
\* terminates the watch loop.
C6_FailureNeverEndsLoop ==
    ~stopOnError =>
        /\ ~(pc = "returned" /\ retErr \in TickStages)
        /\ pc \notin {"panic:latestVersion", "panic:getImageBuildid"}

\* the part of C6 the code keeps: an error a call returned leaves the loop
\* waiting for the next tick
ReportedErrorKeepsLoop ==
    (~stopOnError /\ tickErr # "none") => pc \in LoopPcs

-----------------------------------------------------------------------------
(* Reference notions the claims are stated with, defined on the characters *)
(* and independently of strconv                                            *)

AllDigits(s) == Len(s) > 0 /\ \A i \in 1..Len(s) : Char(s, i) \in Digits

\* one line of decimal digits followed by exactly one line terminator
WellFormedOutput(out) ==
    /\ Len(out) >= 2
    /\ Char(out, Len(out)) = "\n"
    /\ AllDigits(SubSeq(out, 1, Len(out) - 1))

\* an optional sign and decimal digits
ParsesAsInteger(s) ==
    \/ AllDigits(s)
    \/ Len(s) >= 2 /\ Char(s, 1) \in {"-", "+"} /\ AllDigits(SubSeq(s, 2, Len(s)))

BeginsWith(t, p) ==
    Len(t) >= Len(p) /\ \A i \in 1..Len(p) : Char(t, i) = Char(p, i)

LedgerPrefix == "ns:buildid-"

SuffixOf(t) == SubSeq(t, Len(LedgerPrefix) + 1, Len(t))

\* the identifiers of the tags <namespace>:buildid-<decimal digits>
DecimalSuffixIds(T) ==
    {DigitsVal(SuffixOf(t)) :
        t \in {u \in T : BeginsWith(u, LedgerPrefix) /\ AllDigits(SuffixOf(u))}}

SetMax(S) == CHOOSE m \in S : \A x \in S : x <= m

ProbeFunctions == {"latestVersion", "getImageBuildid"}

\* the identifiers whose decimal rendering and terminator fit MaxOutLen
ProbeIds == 0..(10 ^ (MaxOutLen - 1) - 1)

-----------------------------------------------------------------------------
(* C7 *)

\* C7: when the script's stdout is the decimal digits of n >= 0 followed by
\* exactly one line terminator, latestVersion and getImageBuildid return
\* exactly n and no error (and every line of digits parses without error).
C7_WellFormedOutputParses ==
    \A fn \in ProbeFunctions :
        probeRes[fn].kind # "none" =>
            /\ \A n \in ProbeIds :
                   probeLogs = ToString(n) \o "\n" =>
                       probeRes[fn] = Result("ok", n)
            /\ WellFormedOutput(probeLogs) =>
                   probeRes[fn].kind = "ok" /\ probeRes[fn].val >= 0

C7_Witness ==
    /\ probeLogs = "19\n"
    /\ probeRes.latestVersion = Result("ok", 19)
    /\ probeRes.getImageBuildid = Result("ok", 19)

-----------------------------------------------------------------------------
(* C8 *)

\* C8: for every output that is not a single line of decimal digits followed
\* by one line terminator, the version probe returns a parse error: no
\* identifier, and no crash of the process.
C8_MalformedOutputIsParseError ==
    \A fn \in ProbeFunctions :
        (probeRes[fn].kind # "none" /\ ~WellFormedOutput(probeLogs)) =>
            probeRes[fn].kind = "err"

\* the part of C8 the code keeps: output ending in a terminator whose line
\* is no integer (letters, two lines, a bare sign, nothing) is a parse error
MalformedLineIsParseError ==
    \A fn \in ProbeFunctions :
        (/\ probeRes[fn].kind # "none"
         /\ Len(probeLogs) >= 1
         /\ Char(probeLogs, Len(probeLogs)) = "\n"
         /\ ~ParsesAsInteger(SubSeq(probeLogs, 1, Len(probeLogs) - 1))) =>
            probeRes[fn].kind = "err"

-----------------------------------------------------------------------------
(* C9 *)

\* C9: newestBuildVersion returns the "absent" sentinel, a value that is no
\* BuildIdentifier (not even 0), when no tag of the listing begins with
\* <namespace>:buildid-, and returns the maximum of the decimal suffixes of
\* the tags beginning with that prefix when there is one; tags that only
\* contain the prefix, or differ from it in case, are ignored.
C9_HighestBuildId ==
    \A i \in DOMAIN ledgerRes :
        LET r == ledgerRes[i]
        IN  /\ (~ \E t \in r.listing : BeginsWith(t, LedgerPrefix)) =>
                   (r.res = -1 /\ r.res \notin Nat)
            /\ DecimalSuffixIds(r.listing) # {} =>
                   r.res = SetMax(DecimalSuffixIds(r.listing))

C9_Witness ==
    \E i \in DOMAIN ledgerRes :
        /\ ledgerRes[i].listing = {"ns:buildid-5", "ns:buildid-50"}
        /\ ledgerRes[i].res = 50

-----------------------------------------------------------------------------
(* C10 *)

\* C10: adding prefix-matching tags whose suffix does not parse as a decimal
\* integer never changes the result of newestBuildVersion: a scan of the
\* listing with such tags added returns what the scan without them returned.
C10_MalformedTagsAreSkipped ==
    \A i, j \in DOMAIN ledgerRes :
        (/\ ledgerRes[i].listing \subseteq ledgerRes[j].listing
         /\ \A t \in ledgerRes[j].listing \ ledgerRes[i].listing :
                BeginsWith(t, LedgerPrefix) /\ ~ParsesAsInteger(SuffixOf(t)))
            => ledgerRes[j].res = ledgerRes[i].res

\* what the code does keep: a malformed tag never lowers the result and
\* never raises a result that was already >= 0
MalformedTagsOnlyRaiseAbsent ==
    \A i, j \in DOMAIN ledgerRes :
        (/\ ledgerRes[i].listing \subseteq ledgerRes[j].listing
         /\ \A t \in ledgerRes[j].listing \ ledgerRes[i].listing :
                BeginsWith(t, LedgerPrefix) /\ ~ParsesAsInteger(SuffixOf(t)))
            => IF ledgerRes[i].res >= 0
               THEN ledgerRes[j].res = ledgerRes[i].res
               ELSE ledgerRes[j].res \in {ledgerRes[i].res, 0}

-----------------------------------------------------------------------------
(* C11 *)

\* C11: every call of runScript has removed the container it created when
\* it returns, on every path: no container made by a probe exists on the
\* host once the call has returned, whether the call succeeded or failed.
C11_NoContainerOutlivesProbe ==
    lastCall.step \in ProbeSteps => containers = 0

\* what the code does keep: a probe that returns its output has removed
\* its container, and a call that could not create one leaves none
SuccessfulProbeLeavesNoContainer ==
    [][(/\ pc \in ProbeSteps
        /\ lastCall'.step \in ProbeSteps
        /\ lastCall'.failAt \in {"none", "create"})
          => containers' = containers]_vars

-----------------------------------------------------------------------------
(* C12 *)

\* C12: a failure to remove the probe container, after the output of the
\* script was collected, is not escalated: the probe still yields the
\* identifier parsed from that output, the tick is not failed, and with
\* stopOnError set the loop does not return.
C12_RemoveFailureNotEscalated ==
    (lastCall.step \in ProbeSteps /\ lastCall.failAt = "remove")
        => /\ tickErr = "none"
           /\ pc # "returned"
           /\ (lastCall.output = "500\n" /\ lastCall.step = "latestVersion")
                 => latestVersion = 500
           /\ (lastCall.output = "500\n" /\ lastCall.step = "getImageBuildid")
                 => buildid = 500

\* what the code does instead: the failed removal is handed to the loop as
\* the error of the probe, like every other failure of runScript
RemoveFailureFailsProbe ==
    (lastCall.step \in ProbeSteps /\ lastCall.failAt = "remove")
        => /\ tickErr = IF lastCall.step = "latestVersion"
                        THEN "latestVersion" ELSE "buildContainerAndPublish"
           /\ IF stopOnError THEN pc = "returned" ELSE pc \in LoopPcs

-----------------------------------------------------------------------------
(* C13 *)

\* the number of calls among the first n that invoked ImageBuild
RECURSIVE BuildsInvoked(_)
BuildsInvoked(n) ==
    IF n = 0 THEN 0
    ELSE BuildsInvoked(n - 1) + (IF ensureCalls[n].invoked THEN 1 ELSE 0)

\* C13: ensureBaseImage is idempotent. When the base image is absent and
\* the first call builds it without error, two calls in a row invoke
\* ImageBuild exactly once and the second call returns nil without changing
\* the image store; a call that finds the image invokes no build.
C13_EnsureIdempotent ==
    /\ \A i \in DOMAIN ensureCalls :
          ensureCalls[i].inspect = "found"
             => /\ ~ensureCalls[i].invoked
                /\ ~ensureCalls[i].err
                /\ ensureCalls[i].tags = ensureCalls[i].before
    /\ (/\ Len(ensureCalls) >= 2
        /\ BaseTag \notin ensureCalls[1].before
        /\ ensureCalls[1].invoked
        /\ ~ensureCalls[1].err)
          => /\ BuildsInvoked(2) = 1
             /\ ensureCalls[2].tags = ensureCalls[2].before
             /\ (ensureCalls[2].inspect # "err" => ~ensureCalls[2].err)

\* the base image was absent, the first call built it, the second call
\* found it
C13_Witness ==
    /\ Len(ensureCalls) = 2
    /\ ensureCalls[1].before = {}
    /\ ensureCalls[1].invoked /\ ~ensureCalls[1].err
    /\ ensureCalls[2].inspect = "found"
    /\ ensureTags = {"ns:base"}

-----------------------------------------------------------------------------
(* C18 *)

\* C18: in ensureBaseImage only the "not found" result of the inspection
\* leads to a build. Any other failure of the inspection is returned as an
\* error, ImageBuild is not invoked and no tag is created; ImageBuild is
\* invoked only after a "not found".
C18_OnlyNotFoundBuilds ==
    \A i \in DOMAIN ensureCalls :
        /\ ensureCalls[i].inspect = "err"
              => /\ ensureCalls[i].err
                 /\ ~ensureCalls[i].invoked
                 /\ ensureCalls[i].tags = ensureCalls[i].before
        /\ ensureCalls[i].invoked => ensureCalls[i].inspect = "notFound"
        /\ ensureCalls[i].tags # ensureCalls[i].before
              => ensureCalls[i].inspect = "notFound"

\* the inspection of an absent base image failed with another error: the
\* call returned an error and the store still has no base image
C18_Witness ==
    /\ Len(ensureCalls) >= 1
    /\ ensureCalls[1].inspect = "err"
    /\ ensureCalls[1].err
    /\ BaseTag \notin ensureCalls[1].before
    /\ BaseTag \notin ensureTags

-----------------------------------------------------------------------------
(* C14 *)

SetupStages == {"createBuildContext", "ensureBaseImage"}

\* Start ended in its setup: createBuildContext or ensureBaseImage returned
\* an error, or createBuildContext panicked
SetupFailed ==
    \/ pc = "panic:createBuildContext"
    \/ pc = "returned" /\ retErr \in SetupStages

\* the watch loop has done nothing: no tick, no probe, no listing, no build,
\* no tag operation, no notification
LoopUntouched ==
    /\ ticks = 0 /\ ~tickPending
    /\ tickErr = "none" /\ ~compared /\ ~buildInvoked /\ ~announceDispatched
    /\ lastCall.step \in {"none", "ensureBaseImage"}
    /\ containers = 0 /\ uuids = 0
    /\ announcements = <<>> /\ notifications = {}
    /\ published = {}
    /\ tags \subseteq (UNION InitialTagSets) \cup {BaseTag}

\* both setup steps of Start have succeeded
SetupDone == buildContextFile # "" /\ BaseTag \in tags

\* C14: a failure of createBuildContext or of ensureBaseImage always ends
\* Start with that error as its return value, whatever stopOnError is, and
\* no tick, probe, build or tag operation ever happens.
C14_SetupFailureIsReturned ==
    SetupFailed => /\ pc = "returned"
                   /\ retErr \in SetupStages
                   /\ LoopUntouched

\* C14 (amended): a failure of createBuildContext or of ensureBaseImage
\* always ends Start, whatever stopOnError is: Start returns that error, or
\* the process panics inside createBuildContext. In both cases the loop has
\* done nothing, and the loop runs only after both steps succeeded.
C14_SetupFailureIsFatal ==
    /\ SetupFailed => LoopUntouched
    /\ pc \in LoopPcs => SetupDone
    /\ ~LoopUntouched => SetupDone /\ ~SetupFailed
    /\ retErr \in SetupStages => pc = "returned"

\* ensureBaseImage failed on an absent base image while stopOnError was
\* not set: Start has returned that error
C14_Witness ==
    /\ ~stopOnError
    /\ pc = "returned"
    /\ retErr = "ensureBaseImage"
    /\ BaseTag \notin tags
    /\ buildContextFile # ""

-----------------------------------------------------------------------------
(* C15 *)

\* what the goroutine of Start owns: its position, what it returned, the
\* state of the tick and of the pipeline, and the image store
startGoroutine == <<pc, retErr, tickErr, tickPending, ticks, loopLocals,
                    uuids, tags, containers, observed, lastCall>>

\* a goroutine running announceNewVersion ended in this step
AnnouncementEnded == Len(announcements') < Len(announcements)

\* C15: the notification never blocks or fails the build path. The step
\* that dispatches it enters the pipeline at once, the pipeline can run
\* while notifications are still in flight, the end of a notification -
\* sent, failed or skipped - changes nothing of the loop or the pipeline,
\* and no error of a notification is ever returned from the loop.
C15_NotificationNeverFailsBuild ==
    /\ [](retErr # "announceNewVersion" /\ tickErr # "announceNewVersion")
    /\ []((pc = "buildTemp" /\ announcements # <<>>) => ENABLED BuildTemp)
    /\ [][AnnouncementEnded => UNCHANGED startGoroutine]_vars
    /\ [][(announceDispatched' /\ ~announceDispatched)
             => /\ pc' = "buildTemp"
                /\ announcements' = Append(announcements, latestVersion)]_vars

\* with stopOnError set, the notification of a tick failed to send and the
\* pipeline of that tick has published its image
C15_Witness ==
    /\ stopOnError
    /\ pc = "built"
    /\ [version |-> latestVersion, outcome |-> "sendFailed"] \in notifications
    /\ containerImage # ""

-----------------------------------------------------------------------------
(* C16 *)

\* C16: ticks are processed strictly one after another. The loop takes a
\* tick only between two iterations; a pipeline run starts only in the
\* iteration that compared the versions, one run per iteration; and a timer
\* that fires while an iteration or a build is in progress starts nothing:
\* the tick waits in the channel (or is dropped) until the iteration ended.
C16_TicksAreSerial ==
    /\ [][(tickPending /\ ~tickPending')
             => (pc = "wait" /\ pc' = "latestVersion")]_vars
    /\ [][(pc' = "latestVersion" /\ pc # "latestVersion") => pc = "wait"]_vars
    /\ [][(pc' = "buildTemp" /\ pc # "buildTemp")
             => (pc = "compare" /\ uuids' = uuids)]_vars
    /\ [][uuids' # uuids
             => (pc = "buildTemp" /\ uuids' = uuids + 1 /\ pc' # "buildTemp")]_vars
    /\ [][(ticks' # ticks /\ pc # "wait")
             => (tickPending' /\ UNCHANGED <<pc, loopLocals, uuids, tags,
                                             tickErr, observed, lastCall>>)]_vars

\* the timer fired again while the pipeline of the first tick was running:
\* the second tick waits in the channel
C16_Witness ==
    /\ pc \in PipelinePcs
    /\ ticks = 2
    /\ tickPending
    /\ uuids = 1

-----------------------------------------------------------------------------
(* C17 *)

PipelineSteps == {"buildTemp", "getImageBuildid", "imageTag", "buildGet5"}

\* the step of the pipeline run of this tick that failed: the call into the
\* runtime failed, or the installed-version probe did not yield an identifier
PipelineStepFailed(step) ==
    /\ lastCall.step = step
    /\ \/ lastCall.failAt # "none"
       \/ step = "getImageBuildid" /\ probed.kind # "ok"

\* the steps after the failed one were not taken
LaterStepsSkipped(step) ==
    /\ step = "buildTemp" => probed.kind = "none" /\ taggedImage = ""
    /\ step = "getImageBuildid" => taggedImage = ""
    /\ containerImage = ""
    /\ pc # "built"

\* C17: in buildContainerAndPublish the failure of any step aborts the
\* remaining steps and is returned as the error of the pipeline, with an
\* empty tag and no identifier: a failed temp build is followed by no probe
\* and no tag, a failed probe by no tag, a failed tag by no second build.
C17_FailedStepIsReturned ==
    \A step \in PipelineSteps :
        PipelineStepFailed(step)
            => /\ LaterStepsSkipped(step)
               /\ tickErr = "buildContainerAndPublish"
               /\ pc \in (IF stopOnError THEN {"returned"} ELSE LoopPcs)

\* what the code does keep: after a failed step the remaining steps are
\* not taken; the failure is returned to the loop, or the probe panicked
FailedStepAbortsPipeline ==
    \A step \in PipelineSteps :
        PipelineStepFailed(step)
            => /\ LaterStepsSkipped(step)
               /\ \/ tickErr = "buildContainerAndPublish"
                  \/ pc = "panic:getImageBuildid"

-----------------------------------------------------------------------------
(* C19 *)

\* C19: the build context is packaged once per process lifetime.
\* buildContextFile is written only by createBuildContext, in the one step
\* Start takes before ensureBaseImage; no tick, probe, build or failure
\* changes it afterwards, Start never runs createBuildContext again, and
\* every build opens the path that was written then.
C19_ContextPackagedOnce ==
    /\ [][buildContextFile' # buildContextFile
             => (pc = "start" /\ pc' = "ensureBaseImage"
                 /\ buildContextFile = "")]_vars
    /\ [][pc # "start" => pc' # "start"]_vars
    /\ [](pc \in LoopPcs \cup {"ensureBaseImage"} => buildContextFile # "")
    /\ []((lastCall.step \in BuildSteps /\ lastCall.context # "")
             => lastCall.context = buildContextFile)
    /\ []((lastCall.step \in {"buildTemp", "buildGet5"})
             => lastCall.context = buildContextFile)

\* the second pipeline run of the process built its get5 image from the
\* context file that Start packaged
C19_Witness ==
    /\ uuids = 2
    /\ lastCall.step = "buildGet5"
    /\ lastCall.failAt = "none"
    /\ lastCall.context = "/tmp/csgo-update-watcher-1"
    /\ buildContextFile = "/tmp/csgo-update-watcher-1"

-----------------------------------------------------------------------------
(* C20 *)

\* C20: the loop converges. In a run where every call into the runtime
\* succeeded and every probe, upstream and installed, printed the same
\* build, no tick after the first successful pipeline run enters the
\* pipeline or dispatches a notification again.
C20_SteadyRunBuildsOnce ==
    (steady /\ published # {}) => pc # "buildTemp"

\* what the code does instead: in such a run every tick that compared the
\* versions entered the pipeline, unless a tag "ns:buildid-500" was put on
\* the host by hand, because the pipeline writes no tag the ledger reads
SteadyRunRebuildsEveryTick ==
    (steady /\ compared /\ "ns:buildid-500" \notin tags) => buildInvoked

-----------------------------------------------------------------------------
(* C21 *)

PreinstallPrefix == BaseImageName \o ":preinstall-buildid-"

Get5Prefix == BaseImageName \o ":get5-buildid-"

\* no iteration of the loop, and so no pipeline run, is in progress
TickBoundary == pc \in {"wait", "returned"}

\* every preinstall tag of the store has the get5 tag of the same identifier
StageTagsPaired ==
    \A t \in tags :
        BeginsWith(t, PreinstallPrefix)
            => (Get5Prefix \o SubSeq(t, Len(PreinstallPrefix) + 1, Len(t)))
                   \in tags

\* C21: stage tags are created in pairs. Whenever no pipeline run is in
\* progress, for every identifier id, if the tag preinstall-buildid-<id>
\* exists then the tag get5-buildid-<id> exists too, also after pipeline
\* runs that ended with an error.
C21_StageTagsInPairs == TickBoundary => StageTagsPaired

\* what the code does keep: a pipeline run that returned without error has
\* left both tags of its identifier, and no get5 tag exists without the
\* preinstall tag of the same identifier
SuccessfulRunLeavesPair ==
    /\ \A id \in published :
          TaggedImage(id) \in tags /\ Get5TaggedImage(id) \in tags
    /\ \A t \in tags :
          BeginsWith(t, Get5Prefix)
              => (PreinstallPrefix \o SubSeq(t, Len(Get5Prefix) + 1, Len(t)))
                     \in tags

=============================================================================
